---- MODULE Spec2Model ----
(***************************************************************************)
(* Model of the OTAS Python SDK: the Django middleware that captures a     *)
(* request/response exchange, redacts sensitive headers, correlates an     *)
(* unhandled exception and dispatches one event to the collector           *)
(* (otas/middleware.py), and the authentication call made at start-up      *)
(* (otas/auth.py, otas/client.py).                                         *)
(*                                                                         *)
(* Python str values that the code inspects character by character         *)
(* (header names, content types, the OTAS_SENSITIVE_HEADERS value) are     *)
(* sequences of one-character strings; opaque values (header values,       *)
(* exception reprs) are TLA+ strings; bytes are sequences of integers.     *)
(***************************************************************************)
EXTENDS Integers, Sequences, FiniteSets, TLC

\* -----------------------------------------------------------------------
\* Bounds of the model
\* -----------------------------------------------------------------------

\* MAX_BODY_SIZE of otas/constants.py, scaled down to the length of the
\* marker b"[STREAMING_RESPONSE]", the smallest limit that leaves the code's
\* own marker whole; request and response bodies range up to one byte past it.
MAX_BODY_SIZE == 20

\* number of requests one worker thread serves in a run
MaxRequests == 2

\* number of META entries of a request in the header specification
MaxHeaders == 2

\* -----------------------------------------------------------------------
\* Python str operations used by the code
\* -----------------------------------------------------------------------

UpperChars == <<"A","B","C","D","E","F","G","H","I","J","K","L","M",
                "N","O","P","Q","R","S","T","U","V","W","X","Y","Z">>

LowerChars == <<"a","b","c","d","e","f","g","h","i","j","k","l","m",
                "n","o","p","q","r","s","t","u","v","w","x","y","z">>

\* one character of str.lower()
LowerChar(c) ==
    IF \E i \in 1..26 : UpperChars[i] = c
    THEN LowerChars[CHOOSE i \in 1..26 : UpperChars[i] = c]
    ELSE c

\* str.lower()
Lower(s) == [i \in 1..Len(s) |-> LowerChar(s[i])]

\* str.startswith(prefix)
StartsWith(s, prefix) ==
    /\ Len(s) >= Len(prefix)
    /\ SubSeq(s, 1, Len(prefix)) = prefix

\* str.replace(old, new): every non-overlapping occurrence, left to right
RECURSIVE Replace(_, _, _)
Replace(s, old, new) ==
    IF Len(s) < Len(old) THEN s
    ELSE IF SubSeq(s, 1, Len(old)) = old
         THEN new \o Replace(SubSeq(s, Len(old) + 1, Len(s)), old, new)
         ELSE <<s[1]>> \o Replace(Tail(s), old, new)

\* `needle in s` for two str values
Contains(s, needle) ==
    \E i \in 1..(Len(s) - Len(needle) + 1) :
        SubSeq(s, i, i + Len(needle) - 1) = needle

\* str.strip(): leading and trailing blanks removed
RECURSIVE LStrip(_)
LStrip(s) == IF s # <<>> /\ s[1] = " " THEN LStrip(Tail(s)) ELSE s

RECURSIVE RStrip(_)
RStrip(s) ==
    IF s # <<>> /\ s[Len(s)] = " " THEN RStrip(SubSeq(s, 1, Len(s) - 1)) ELSE s

Strip(s) == RStrip(LStrip(s))

\* str.split(sep) for a one-character separator: the sequence of fields
RECURSIVE Split(_, _)
Split(s, sep) ==
    IF \E i \in 1..Len(s) : s[i] = sep
    THEN LET i == CHOOSE j \in 1..Len(s) :
                      s[j] = sep /\ \A k \in 1..(j - 1) : s[k] # sep
         IN  <<SubSeq(s, 1, i - 1)>> \o Split(SubSeq(s, i + 1, Len(s)), sep)
    ELSE <<s>>

\* -----------------------------------------------------------------------
\* str literals of the code
\* -----------------------------------------------------------------------

s_authorization == <<"a", "u", "t", "h", "o", "r", "i", "z", "a", "t", "i", "o", "n">>
s_cookie == <<"c", "o", "o", "k", "i", "e">>
s_set_cookie == <<"s", "e", "t", "-", "c", "o", "o", "k", "i", "e">>
s_x_api_key == <<"x", "-", "a", "p", "i", "-", "k", "e", "y">>
s_proxy_authorization == <<"p", "r", "o", "x", "y", "-", "a", "u", "t", "h", "o", "r", "i", "z", "a", "t", "i", "o", "n">>
s_HTTP_ == <<"H", "T", "T", "P", "_">>
s_HTTP_X_OTAS_AGENT_SESSION_TOKEN == <<"H", "T", "T", "P", "_", "X", "_", "O", "T", "A", "S", "_", "A", "G", "E", "N", "T", "_", "S", "E", "S", "S", "I", "O", "N", "_", "T", "O", "K", "E", "N">>
s_Content_Type == <<"C", "o", "n", "t", "e", "n", "t", "-", "T", "y", "p", "e">>
s_multipart_form_data == <<"m", "u", "l", "t", "i", "p", "a", "r", "t", "/", "f", "o", "r", "m", "-", "d", "a", "t", "a">>
s_application_octet_stream == <<"a", "p", "p", "l", "i", "c", "a", "t", "i", "o", "n", "/", "o", "c", "t", "e", "t", "-", "s", "t", "r", "e", "a", "m">>
s_application_json == <<"a", "p", "p", "l", "i", "c", "a", "t", "i", "o", "n", "/", "j", "s", "o", "n">>
s_STREAMING_RESPONSE == <<91, 83, 84, 82, 69, 65, 77, 73, 78, 71, 95, 82, 69, 83, 80, 79, 78, 83, 69, 93>>

REDACTED == "[REDACTED]"

DEFAULT_SENSITIVE_HEADERS ==
    {s_authorization, s_cookie, s_set_cookie, s_x_api_key, s_proxy_authorization}

\* -----------------------------------------------------------------------
\* Helpers of OtasMiddleware
\* -----------------------------------------------------------------------

\* the elements of a sequence
Range(seq) == {seq[i] : i \in 1..Len(seq)}

\* _load_sensitive_headers, given the value of OTAS_SENSITIVE_HEADERS
\* ("" when the variable is unset)
_load_sensitive_headers(env_headers) ==
    LET parsed == {Lower(Strip(h)) :
                     h \in {g \in Range(Split(env_headers, ",")) : Strip(g) # <<>>}}
    IN  DEFAULT_SENSITIVE_HEADERS \cup parsed

\* a dict is a sequence of <<key, value>> pairs with distinct keys, in
\* insertion order; d[key] = value inserts or overwrites in place
DictKeys(d) == {d[i][1] : i \in 1..Len(d)}

DictGet(d, key, default) ==
    IF key \in DictKeys(d)
    THEN d[CHOOSE i \in 1..Len(d) : d[i][1] = key][2]
    ELSE default

DictSet(d, key, value) ==
    IF key \in DictKeys(d)
    THEN [i \in 1..Len(d) |-> IF d[i][1] = key THEN <<key, value>> ELSE d[i]]
    ELSE Append(d, <<key, value>>)

\* a _redact_headers that compares the name as it is, without lower()
RedactCaseSensitive(headers, sensitive) ==
    [i \in 1..Len(headers) |->
        IF headers[i][1] \in sensitive
        THEN <<headers[i][1], REDACTED>>
        ELSE headers[i]]

\* _redact_headers
_redact_headers(headers, sensitive) ==
    [i \in 1..Len(headers) |->
        IF Lower(headers[i][1]) \in sensitive
        THEN <<headers[i][1], REDACTED>>
        ELSE headers[i]]

\* the header name the loop of _extract_request_headers derives from a key
HeaderName(key) == Lower(Replace(Replace(key, s_HTTP_, <<>>), <<"_">>, <<"-">>))

\* the loop of _extract_request_headers over request.META.items()
RECURSIVE ExtractLoop(_, _)
ExtractLoop(meta, headers) ==
    IF meta = <<>> THEN headers
    ELSE LET key == meta[1][1]
             value == meta[1][2]
         IN  IF StartsWith(key, s_HTTP_)
             THEN ExtractLoop(Tail(meta), DictSet(headers, HeaderName(key), value))
             ELSE ExtractLoop(Tail(meta), headers)

\* _extract_request_headers
_extract_request_headers(meta, sensitive) ==
    _redact_headers(ExtractLoop(meta, <<>>), sensitive)

\* a _truncate that keeps one byte too many
TruncateOneTooMany(body) ==
    IF Len(body) > MAX_BODY_SIZE THEN SubSeq(body, 1, MAX_BODY_SIZE + 1) ELSE body

\* _truncate
_truncate(body) ==
    IF Len(body) > MAX_BODY_SIZE THEN SubSeq(body, 1, MAX_BODY_SIZE) ELSE body

\* a _should_capture_body without the application/octet-stream test
ShouldCaptureBinaryBody(content_type) ==
    IF content_type = <<>> THEN FALSE
    ELSE IF Contains(Lower(content_type), s_multipart_form_data) THEN FALSE
    ELSE TRUE

\* _should_capture_body
_should_capture_body(content_type) ==
    IF content_type = <<>> THEN FALSE
    ELSE IF Contains(Lower(content_type), s_multipart_form_data) THEN FALSE
    ELSE IF Contains(Lower(content_type), s_application_octet_stream) THEN FALSE
    ELSE TRUE

\* bytes.decode(errors="ignore") on bodies made of ASCII bytes and of the
\* byte 0xFF, which is invalid in UTF-8 wherever it stands and is dropped
Decode(body) == SelectSeq(body, LAMBDA b : b < 128)

\* json.dumps(obj): the JSON text, kept as the value it encodes
JsonDumps(obj) == [json |-> obj]

\* -----------------------------------------------------------------------
\* State
\* -----------------------------------------------------------------------

VARIABLES
    sensitive_headers,  \* OtasMiddleware.sensitive_headers
    client,             \* OtasMiddleware.client, <<>> before it is constructed
    local,              \* OtasMiddleware._local.exception, one slot per thread
    pc,                 \* position of each worker thread in __call__
    request,            \* the request a thread is serving
    request_data,       \* request._otas_request_data
    response,           \* what get_response returned
    payload,            \* the payload built for the request
    outbound,           \* requests.post calls made to OTAS_LOG_ENDPOINT for the request
    outcome,            \* how the requests.post call ended
    returned,           \* what __call__ returned to its caller
    raised,             \* the exception that left __call__, "" when none
    downstream,         \* what get_response did for the request
    served,             \* requests a thread has finished
    entry,              \* the entry point that start-up goes through
    sdk_key_in,         \* the key it is given, <<>> for an unset OTAS_SDK_KEY
    apc,                \* position of start-up
    auth_requests,      \* X-OTAS-SDK-KEY of each POST to AUTHENTICATE_URL
    reply,              \* the reply to the authentication request
    auth_error          \* the exception start-up ended with

mwVars == <<sensitive_headers, local, pc, request, request_data,
            response, payload, outbound, outcome, returned, raised,
            downstream, served>>

authVars == <<entry, sdk_key_in, apc, auth_requests, reply, auth_error>>

vars == <<mwVars, client, authVars>>

Threads == {"t1", "t2"}

\* the slot a thread reaches through self._local (threading.local())
ThreadLocalShared(t) == "t1"

ThreadLocal(t) == t

\* -----------------------------------------------------------------------
\* Inputs
\* -----------------------------------------------------------------------

\* byte i of the bodies of the model: ASCII letters, 0xFF at even offsets
ByteAt(i) == IF i % 2 = 0 THEN 255 ELSE 64 + i

BodyOfLen(n) == [i \in 1..n |-> ByteAt(i)]

\* empty, one byte, exactly the limit, one byte past the limit
Bodies == {BodyOfLen(n) : n \in {0, 1, MAX_BODY_SIZE, MAX_BODY_SIZE + 1}}

ContentTypes ==
    {<<>>, s_application_json, s_multipart_form_data, s_application_octet_stream}

EmptyQueryDict == <<>>

FormData == << <<"name", <<"otas">> >> >>

k_HTTP_AUTHORIZATION == <<"H", "T", "T", "P", "_", "A", "U", "T", "H", "O", "R", "I", "Z", "A", "T", "I", "O", "N">>
k_HTTP_ACCEPT == <<"H", "T", "T", "P", "_", "A", "C", "C", "E", "P", "T">>
k_HTTP_X_HTTP_TOKEN == <<"H", "T", "T", "P", "_", "X", "_", "H", "T", "T", "P", "_", "T", "O", "K", "E", "N">>
k_HTTP_X_TOKEN == <<"H", "T", "T", "P", "_", "X", "_", "T", "O", "K", "E", "N">>
k_CONTENT_TYPE == <<"C", "O", "N", "T", "E", "N", "T", "_", "T", "Y", "P", "E">>
k_Set_Cookie == <<"S", "e", "t", "-", "C", "o", "o", "k", "i", "e">>

MetaPlain == << <<s_HTTP_X_OTAS_AGENT_SESSION_TOKEN, "session-1">>,
                <<k_HTTP_AUTHORIZATION, "Bearer secret">> >>

\* the token header sent with an empty value
MetaEmptyToken == << <<s_HTTP_X_OTAS_AGENT_SESSION_TOKEN, "">> >>

\* requests of the request-lifecycle specification: a failing form parse
\* needs a POST with a form content type
Requests ==
    {r \in [method : {"GET", "POST"},
            path : {"/api/"},
            content_type : ContentTypes,
            body : Bodies,
            body_unreadable : BOOLEAN,
            post_unparseable : BOOLEAN,
            GET : {EmptyQueryDict},
            POST : {EmptyQueryDict, FormData},
            META : {<<>>, MetaPlain, MetaEmptyToken}] :
        /\ r.post_unparseable =>
              r.method = "POST" /\ r.content_type = s_multipart_form_data
        /\ r.POST = FormData <=>
              /\ r.method = "POST"
              /\ r.content_type = s_multipart_form_data
              /\ ~r.post_unparseable}

ResponseHeaders ==
    {<< <<s_Content_Type, "application/json">> >>,
     << <<s_Content_Type, "text/html">>,
        <<k_Set_Cookie, "sessionid=abc">> >>}

\* HttpResponse, StreamingHttpResponse, and a SimpleTemplateResponse that was
\* never rendered, whose content property raises ContentNotRenderedError
ResponseKinds == {"HttpResponse", "StreamingHttpResponse", "Unrendered"}

ResponsesWith(status) ==
    [kind : ResponseKinds, status_code : {status}, content : Bodies,
     headers : ResponseHeaders]

Exceptions == {"ValueError('boom')", "KeyError('k')"}

\* how requests.post ends: a status below 400, a status of 400 or more, or
\* an exception (ConnectionError, Timeout, a TypeError while serialising)
DispatchOutcomes == {"ok", "http_error", "unreachable", "timeout", "exception"}

\* a JSON value, and the Python value json() turns it into: t is its type
\* and f its content, the dict of an object or the one value of a scalar
JNull == [t |-> "null", f |-> <<>>]
JStr(x) == [t |-> "string", f |-> <<x>>]
JNum(n) == [t |-> "number", f |-> <<n>>]
JArr == [t |-> "array", f |-> <<>>]
JObj(d) == [t |-> "object", f |-> d]
NotJson == [t |-> "invalid", f |-> <<>>]

\* OtasClient.project_id
project_id(cl) ==
    IF cl._credentials = <<>> THEN JNull ELSE cl._credentials[1].project_id

\* -----------------------------------------------------------------------
\* Capture and payload
\* -----------------------------------------------------------------------

\* the body _capture_request reads before truncating it: request.body when
\* the content type is captured and the read does not raise, else b""
RawRequestBody(req) ==
    IF _should_capture_body(req.content_type) /\ ~req.body_unreadable
    THEN req.body
    ELSE <<>>

\* _capture_request for a request whose request.POST can be read
_capture_request(req, sensitive) ==
    LET body == _truncate(RawRequestBody(req))
        agent_session_token ==
            DictGet(req.META, s_HTTP_X_OTAS_AGENT_SESSION_TOKEN, "")
        headers == _extract_request_headers(req.META, sensitive)
    IN  [method |-> req.method,
         path |-> req.path,
         query_params |-> JsonDumps(req.GET),
         post_data |-> JsonDumps(req.POST),
         request_headers |-> JsonDumps(headers),
         request_body |-> Decode(body),
         request_size_bytes |-> Len(body),
         request_content_type |-> req.content_type,
         agent_session_token |-> agent_session_token]

\* a _capture_response that reads the stream of a streaming response
CaptureResponseReadsStream(resp, sensitive) ==
    LET body == _truncate(resp.content)
        headers == _redact_headers(resp.headers, sensitive)
    IN  [status_code |-> resp.status_code,
         response_headers |-> JsonDumps(headers),
         response_body |-> Decode(body),
         response_size_bytes |-> Len(body),
         response_content_type |-> DictGet(headers, s_Content_Type, "None")]

\* _capture_response for a response whose content can be read
_capture_response(resp, sensitive) ==
    LET raw == IF resp.kind = "StreamingHttpResponse"
               THEN s_STREAMING_RESPONSE
               ELSE resp.content
        body == _truncate(raw)
        headers == _redact_headers(resp.headers, sensitive)
    IN  [status_code |-> resp.status_code,
         response_headers |-> JsonDumps(headers),
         response_body |-> Decode(body),
         response_size_bytes |-> Len(body),
         response_content_type |-> DictGet(headers, s_Content_Type, "None")]

\* lines 88-90 of __call__ without the override
KeepResponseBody(response_data, captured_exception) == response_data

\* lines 88-90 of __call__: an exception object is truthy, None is not
OverrideOnException(response_data, captured_exception) ==
    IF captured_exception # "None"
    THEN [response_data EXCEPT !.response_body = <<>>,
                               !.response_size_bytes = 0]
    ELSE response_data

\* line 96 of __call__ and `error or ""` of _build_payload
ErrorText(captured_exception) ==
    IF captured_exception # "None" THEN captured_exception ELSE ""

\* _build_payload
_build_payload(cl, rq, response_data, error) ==
    [project_id |-> project_id(cl),
     path |-> rq.path,
     method |-> rq.method,
     status_code |-> response_data.status_code,
     request_size_bytes |-> rq.request_size_bytes,
     response_size_bytes |-> response_data.response_size_bytes,
     request_headers |-> rq.request_headers,
     request_body |-> rq.request_body,
     query_params |-> rq.query_params,
     post_data |-> rq.post_data,
     response_headers |-> response_data.response_headers,
     response_body |-> response_data.response_body,
     request_content_type |-> rq.request_content_type,
     response_content_type |-> response_data.response_content_type,
     custom_properties |-> <<>>,
     error |-> error,
     metadata |-> <<>>,
     agent_session_token |-> rq.agent_session_token]

\* a requests.post call that sends the token header always and leaves the
\* token in the JSON body
OutboundPostKeepsToken(cl, pl) ==
    [headers |-> << <<"Content-Type", "application/json">>,
                    <<"X-OTAS-SDK-KEY", cl.sdk_key>>,
                    <<"X-OTAS-AGENT-SESSION-TOKEN", pl.agent_session_token>> >>,
     json |-> pl,
     timeout |-> 2]

\* the requests.post call of _send_to_otas: the token leaves the payload
\* (payload.pop) and travels as a header when it is not empty
OutboundPost(cl, pl) ==
    [headers |->
        IF pl.agent_session_token # ""
        THEN << <<"Content-Type", "application/json">>,
                <<"X-OTAS-SDK-KEY", cl.sdk_key>>,
                <<"X-OTAS-AGENT-SESSION-TOKEN", pl.agent_session_token>> >>
        ELSE << <<"Content-Type", "application/json">>,
                <<"X-OTAS-SDK-KEY", cl.sdk_key>> >>,
     json |-> [f \in (DOMAIN pl) \ {"agent_session_token"} |-> pl[f]],
     timeout |-> 2]

\* -----------------------------------------------------------------------
\* The request lifecycle: OtasMiddleware.__call__, one thread per request
\* -----------------------------------------------------------------------

\* the client of a middleware that started: OtasClient(sdk_key).authenticate()
TheClient ==
    [sdk_key |-> "otas_key",
     _credentials |-> <<[project_id |-> JStr("p1"),
                         project_name |-> JStr("shop"),
                         project_description |-> JNull,
                         sdk_key |-> "otas_key"]>>]

NoError == [type |-> "", detail |-> JNull]

\* start-up is over
AuthIdle ==
    /\ entry = "OtasMiddleware"
    /\ sdk_key_in = <<"otas_key">>
    /\ apc = "returned"
    /\ auth_requests = <<"otas_key">>
    /\ reply = <<>>
    /\ auth_error = NoError

\* the middleware after __init__, for a value of OTAS_SENSITIVE_HEADERS
\* among envs, with every worker thread idle
InitWith(envs) ==
    /\ sensitive_headers \in {_load_sensitive_headers(e) : e \in envs}
    /\ client = <<TheClient>>
    /\ AuthIdle
    /\ local = [t \in Threads |-> "None"]
    /\ pc = [t \in Threads |-> "idle"]
    /\ request = [t \in Threads |-> <<>>]
    /\ request_data = [t \in Threads |-> <<>>]
    /\ response = [t \in Threads |-> <<>>]
    /\ payload = [t \in Threads |-> <<>>]
    /\ outbound = [t \in Threads |-> <<>>]
    /\ outcome = [t \in Threads |-> "none"]
    /\ returned = [t \in Threads |-> <<>>]
    /\ raised = [t \in Threads |-> ""]
    /\ downstream = [t \in Threads |-> "none"]
    /\ served = [t \in Threads |-> 0]

\* a __call__ that leaves the slot as the thread's previous request left it
CallStartNoReset(t, req) ==
    /\ pc[t] = "idle"
    /\ served[t] < MaxRequests
    /\ request' = [request EXCEPT ![t] = <<req>>]
    /\ IF req.post_unparseable
       THEN /\ pc' = [pc EXCEPT ![t] = "raised"]
            /\ raised' = [raised EXCEPT ![t] = "MultiPartParserError"]
            /\ UNCHANGED <<request_data, local>>
       ELSE /\ pc' = [pc EXCEPT ![t] = "handling"]
            /\ request_data' = [request_data EXCEPT
                                  ![t] = <<_capture_request(req, sensitive_headers)>>]
            /\ UNCHANGED <<raised, local>>
    /\ UNCHANGED <<authVars, sensitive_headers, client, response, payload, outbound,
                   outcome, returned, downstream, served>>

\* a __call__ that hands the request downstream before capturing it
CallStartUncaptured(t, req) ==
    /\ pc[t] = "idle"
    /\ served[t] < MaxRequests
    /\ request' = [request EXCEPT ![t] = <<req>>]
    /\ pc' = [pc EXCEPT ![t] = "handling"]
    /\ local' = [local EXCEPT ![ThreadLocal(t)] = "None"]
    /\ UNCHANGED <<authVars, sensitive_headers, client, request_data, raised,
                   response, payload, outbound, outcome, returned, downstream,
                   served>>

\* lines 76-78: capture the request, then reset the thread's error slot.
\* dict(request.POST) is evaluated outside any try block: a form that cannot
\* be parsed raises out of _capture_request and out of __call__.
CallStart(t, req) ==
    /\ pc[t] = "idle"
    /\ served[t] < MaxRequests
    /\ request' = [request EXCEPT ![t] = <<req>>]
    /\ IF req.post_unparseable
       THEN /\ pc' = [pc EXCEPT ![t] = "raised"]
            /\ raised' = [raised EXCEPT ![t] = "MultiPartParserError"]
            /\ UNCHANGED <<request_data, local>>
       ELSE /\ pc' = [pc EXCEPT ![t] = "handling"]
            /\ request_data' = [request_data EXCEPT
                                  ![t] = <<_capture_request(req, sensitive_headers)>>]
            /\ local' = [local EXCEPT ![ThreadLocal(t)] = "None"]
            /\ UNCHANGED raised
    /\ UNCHANGED <<authVars, sensitive_headers, client, response, payload, outbound,
                   outcome, returned, downstream, served>>

\* line 80: get_response returns the handler's response, nothing was raised
GetResponseReturns(t, resp) ==
    /\ pc[t] = "handling"
    /\ pc' = [pc EXCEPT ![t] = "responded"]
    /\ response' = [response EXCEPT ![t] = <<resp>>]
    /\ downstream' = [downstream EXCEPT ![t] = "returned"]
    /\ UNCHANGED <<authVars, sensitive_headers, client, local, request, request_data,
                   payload, outbound, outcome, returned, raised, served>>

\* line 80 and _on_exception: the handler raised exc and the framework sends
\* got_request_exception on the thread that serves the request
_on_exception(t, exc) ==
    /\ pc[t] = "handling"
    /\ pc' = [pc EXCEPT ![t] = "notified"]
    /\ local' = [local EXCEPT ![ThreadLocal(t)] = exc]
    /\ downstream' = [downstream EXCEPT ![t] = "raised"]
    /\ UNCHANGED <<authVars, sensitive_headers, client, request, request_data, response,
                   payload, outbound, outcome, returned, raised, served>>

\* line 80: the framework converted the exception into a response, which
\* get_response returns
GetResponseConverted(t, resp) ==
    /\ pc[t] = "notified"
    /\ pc' = [pc EXCEPT ![t] = "responded"]
    /\ response' = [response EXCEPT ![t] = <<resp>>]
    /\ UNCHANGED <<authVars, sensitive_headers, client, local, request, request_data,
                   payload, outbound, outcome, returned, raised, downstream,
                   served>>

\* line 80: get_response raises (the request is aborted, or the framework
\* re-raises after the notification); nothing after line 80 runs
GetResponseRaises(t) ==
    /\ pc[t] \in {"handling", "notified"}
    /\ pc' = [pc EXCEPT ![t] = "raised"]
    /\ raised' = [raised EXCEPT ![t] = "DownstreamError"]
    /\ downstream' = [downstream EXCEPT ![t] = "aborted"]
    /\ UNCHANGED <<authVars, sensitive_headers, client, local, request, request_data,
                   response, payload, outbound, outcome, returned, served>>

\* lines 82-97: capture the response, read the slot, override, build the
\* payload. _capture_response has no try block: a content property that
\* raises leaves __call__.
CaptureAndBuild(t) ==
    /\ pc[t] = "responded"
    /\ LET resp == response[t][1]
       IN  IF resp.kind = "Unrendered"
           THEN /\ pc' = [pc EXCEPT ![t] = "raised"]
                /\ raised' = [raised EXCEPT ![t] = "ContentNotRenderedError"]
                /\ UNCHANGED payload
           ELSE LET captured_exception == local[ThreadLocal(t)]
                    response_data ==
                        OverrideOnException(
                            _capture_response(resp, sensitive_headers),
                            captured_exception)
                IN  /\ pc' = [pc EXCEPT ![t] = "built"]
                    /\ payload' = [payload EXCEPT ![t] =
                          <<_build_payload(client[1], request_data[t][1],
                                           response_data,
                                           ErrorText(captured_exception))>>]
                    /\ UNCHANGED raised
    /\ UNCHANGED <<authVars, sensitive_headers, client, local, request, request_data,
                   response, outbound, outcome, returned, downstream, served>>

\* a _send_to_otas that lets the exception of requests.post through
SendToOtasUnguarded(t, out) ==
    /\ pc[t] = "built"
    /\ outbound' = [outbound EXCEPT
                      ![t] = Append(@, OutboundPost(client[1], payload[t][1]))]
    /\ outcome' = [outcome EXCEPT ![t] = out]
    /\ IF out \in {"ok", "http_error"}
       THEN pc' = [pc EXCEPT ![t] = "sent"] /\ UNCHANGED raised
       ELSE /\ pc' = [pc EXCEPT ![t] = "raised"]
            /\ raised' = [raised EXCEPT ![t] = "RequestException"]
    /\ UNCHANGED <<authVars, sensitive_headers, client, local, request, request_data,
                   response, payload, returned, downstream, served>>

\* line 98, _send_to_otas: one requests.post; a status of 400 or more is
\* logged, any exception is caught and logged; returns normally
_send_to_otas(t, out) ==
    /\ pc[t] = "built"
    /\ outbound' = [outbound EXCEPT
                      ![t] = Append(@, OutboundPost(client[1], payload[t][1]))]
    /\ outcome' = [outcome EXCEPT ![t] = out]
    /\ pc' = [pc EXCEPT ![t] = "sent"]
    /\ UNCHANGED <<authVars, sensitive_headers, client, local, request, request_data,
                   response, payload, returned, raised, downstream, served>>

\* a __call__ that returns the response while the dispatch is still pending
ReturnWithoutWaiting(t) ==
    /\ pc[t] \in {"built", "sent"}
    /\ pc' = [pc EXCEPT ![t] = "done"]
    /\ returned' = [returned EXCEPT ![t] = response[t]]
    /\ UNCHANGED <<authVars, sensitive_headers, client, local, request, request_data,
                   response, payload, outbound, outcome, raised, downstream,
                   served>>

\* a __call__ that returns the response with the body its snapshot was
\* given when an exception was captured
ReturnOverridden(t) ==
    /\ pc[t] = "sent"
    /\ pc' = [pc EXCEPT ![t] = "done"]
    /\ returned' = [returned EXCEPT ![t] =
                      IF local[ThreadLocal(t)] # "None"
                      THEN <<[response[t][1] EXCEPT !.content = <<>>]>>
                      ELSE response[t]]
    /\ UNCHANGED <<authVars, sensitive_headers, client, local, request, request_data,
                   response, payload, outbound, outcome, raised, downstream,
                   served>>

\* line 99: return response
Return(t) ==
    /\ pc[t] = "sent"
    /\ pc' = [pc EXCEPT ![t] = "done"]
    /\ returned' = [returned EXCEPT ![t] = response[t]]
    /\ UNCHANGED <<authVars, sensitive_headers, client, local, request, request_data,
                   response, payload, outbound, outcome, raised, downstream,
                   served>>

\* _on_exception after __call__ has returned or raised: got_request_exception
\* is sent on the same thread for an exception raised outside get_response
\* (by __call__ itself, or by a middleware placed before this one)
OnExceptionAfterCall(t, exc) ==
    /\ pc[t] \in {"done", "raised"}
    /\ local' = [local EXCEPT ![ThreadLocal(t)] = exc]
    /\ UNCHANGED <<authVars, sensitive_headers, client, pc, request, request_data,
                   response, payload, outbound, outcome, returned, raised,
                   downstream, served>>

\* the worker thread is handed back to the server's pool: the request and
\* everything local to __call__ is gone, self._local keeps its value
ThreadReused(t) ==
    /\ pc[t] \in {"done", "raised"}
    /\ pc' = [pc EXCEPT ![t] = "idle"]
    /\ served' = [served EXCEPT ![t] = @ + 1]
    /\ request' = [request EXCEPT ![t] = <<>>]
    /\ request_data' = [request_data EXCEPT ![t] = <<>>]
    /\ response' = [response EXCEPT ![t] = <<>>]
    /\ payload' = [payload EXCEPT ![t] = <<>>]
    /\ outbound' = [outbound EXCEPT ![t] = <<>>]
    /\ outcome' = [outcome EXCEPT ![t] = "none"]
    /\ returned' = [returned EXCEPT ![t] = <<>>]
    /\ raised' = [raised EXCEPT ![t] = ""]
    /\ downstream' = [downstream EXCEPT ![t] = "none"]
    /\ UNCHANGED <<authVars, sensitive_headers, client, local>>

\* -----------------------------------------------------------------------
\* Spec: one worker thread, one request, every kind of request and response
\* -----------------------------------------------------------------------

e_empty == <<>>

Init == InitWith({e_empty})

Next ==
    \/ \E req \in Requests : CallStart("t1", req)
    \/ \E resp \in ResponsesWith(200) : GetResponseReturns("t1", resp)
    \/ \E exc \in Exceptions : _on_exception("t1", exc)
    \/ \E resp \in ResponsesWith(500) : GetResponseConverted("t1", resp)
    \/ GetResponseRaises("t1")
    \/ CaptureAndBuild("t1")
    \/ \E out \in DispatchOutcomes : _send_to_otas("t1", out)
    \/ Return("t1")

Spec == Init /\ [][Next]_vars

\* -----------------------------------------------------------------------
\* Properties of the request lifecycle
\* -----------------------------------------------------------------------

\* the event of the request thread t serves, once it has been dispatched
Dispatched(t) == outbound[t] # <<>>

Event(t) == outbound[t][1].json

\* C2: when got_request_exception fired during the request's get_response,
\* the dispatched event has a non-empty error, an empty response_body and a
\* response_size_bytes of 0, whatever body the converted response carried.
C2_ErrorEventHasNoBody ==
    \A t \in Threads :
        (Dispatched(t) /\ downstream[t] = "raised") =>
            /\ Event(t).error # ""
            /\ Event(t).response_body = <<>>
            /\ Event(t).response_size_bytes = 0

\* an event was dispatched for a request whose handler raised and whose
\* converted response carried a body
C2_Witness ==
    \E t \in Threads :
        /\ Dispatched(t)
        /\ downstream[t] = "raised"
        /\ response[t][1].kind = "HttpResponse"
        /\ response[t][1].content # <<>>

\* C4: however the dispatch call ends, _send_to_otas returns normally,
\* nothing is raised out of __call__, and __call__ returns the response
\* that get_response produced.
C4_DispatchFailureIsIsolated ==
    \A t \in Threads :
        outcome[t] # "none" =>
            /\ raised[t] = ""
            /\ pc[t] \in {"sent", "done"}
            /\ pc[t] = "done" => returned[t] = response[t]

\* a request whose dispatch failed has returned its response
C4_Witness ==
    \E t \in Threads :
        /\ outcome[t] \in {"unreachable", "timeout", "exception"}
        /\ pc[t] = "done"
        /\ returned[t] = response[t]
        /\ returned[t] # <<>>

\* C5: at most one dispatch call per request; exactly one once downstream
\* handling produced a response, none when get_response raised.
C5_OneDispatchPerResponse ==
    \A t \in Threads :
        /\ Len(outbound[t]) <= 1
        /\ downstream[t] = "aborted" => Len(outbound[t]) = 0
        /\ (pc[t] \in {"done", "raised"} /\ response[t] # <<>>) =>
              Len(outbound[t]) = 1

\* C6: a form that cannot be parsed leaves post_data an empty map, raises
\* nothing out of the middleware, and the request goes on.
C6_FormParseFailureIsAbsorbed ==
    \A t \in Threads :
        (request[t] # <<>> /\ request[t][1].post_unparseable) =>
            /\ raised[t] = ""
            /\ request_data[t] # <<>>
            /\ request_data[t][1].post_data = JsonDumps(EmptyQueryDict)

\* C7: a failure while reading the response during response capture raises
\* nothing out of __call__, and the event is still built and dispatched.
C7_ResponseCaptureFailureIsAbsorbed ==
    \A t \in Threads :
        (response[t] # <<>> /\ response[t][1].kind = "Unrendered"
            /\ pc[t] # "responded") =>
            /\ raised[t] = ""
            /\ payload[t] # <<>>

\* C8: request_size_bytes is the length of the body before truncation,
\* request_body holds its first MAX_BODY_SIZE bytes.
C8_RequestSizeIsPreTruncation ==
    \A t \in Threads :
        Dispatched(t) =>
            LET B == RawRequestBody(request[t][1])
            IN  /\ Event(t).request_size_bytes = Len(B)
                /\ Event(t).request_body = Decode(_truncate(B))

\* -----------------------------------------------------------------------
\* SpecHeaders: one worker thread; the values of OTAS_SENSITIVE_HEADERS and
\* the header entries of request.META vary
\* -----------------------------------------------------------------------

e_http_token == <<" ", "X", "-", "H", "t", "t", "p", "-", "T", "o", "k", "e", "n", " ", ",", " ", "x", "-", "t", "r", "a", "c", "e">>
e_commas == <<",", " ", ",", "A", "c", "c", "e", "p", "t">>

SensitiveEnvs == {e_empty, e_http_token, e_commas}

\* META entries as the framework builds them: HTTP_ + the header's name in
\* upper case with hyphens turned into underscores; CONTENT_TYPE has no prefix
MetaEntries ==
    {<<k_HTTP_AUTHORIZATION, "Bearer secret">>,
     <<k_HTTP_ACCEPT, "*/*">>,
     <<k_HTTP_X_HTTP_TOKEN, "token-a">>,
     <<k_HTTP_X_TOKEN, "token-b">>,
     <<k_CONTENT_TYPE, "text/plain">>}

Metas ==
    {m \in UNION {[1..n -> MetaEntries] : n \in 0..MaxHeaders} :
        \A i, j \in 1..Len(m) : i # j => m[i][1] # m[j][1]}

HeaderRequests ==
    [method : {"GET"}, path : {"/api/"}, content_type : {<<>>},
     body : {<<>>}, body_unreadable : {FALSE}, post_unparseable : {FALSE},
     GET : {EmptyQueryDict}, POST : {EmptyQueryDict}, META : Metas]

OneResponse(status) ==
    [kind |-> "HttpResponse", status_code |-> status, content |-> BodyOfLen(1),
     headers |-> << <<s_Content_Type, "application/json">> >>]

InitHeaders == InitWith(SensitiveEnvs)

NextHeaders ==
    \/ \E req \in HeaderRequests : CallStart("t1", req)
    \/ GetResponseReturns("t1", OneResponse(200))
    \/ _on_exception("t1", "ValueError('boom')")
    \/ GetResponseConverted("t1", OneResponse(500))
    \/ GetResponseRaises("t1")
    \/ CaptureAndBuild("t1")
    \/ _send_to_otas("t1", "ok")
    \/ Return("t1")

SpecHeaders == InitHeaders /\ [][NextHeaders]_vars

\* the name of the header a META key carries: the key without its leading
\* HTTP_, underscores as hyphens, in lower case
IncomingHeaderName(key) ==
    Lower(Replace(SubSeq(key, Len(s_HTTP_) + 1, Len(key)), <<"_">>, <<"-">>))

\* C1: every incoming header whose lower-cased name is in the sensitive set
\* is in request_headers of the dispatched event with the value
\* "[REDACTED]", and its original value is nowhere in request_headers.
C1_SensitiveRequestHeadersAreRedacted ==
    \A t \in Threads :
        Dispatched(t) =>
            LET meta == request[t][1].META
                stored == Event(t).request_headers.json
            IN  \A i \in 1..Len(meta) :
                    (/\ StartsWith(meta[i][1], s_HTTP_)
                     /\ IncomingHeaderName(meta[i][1]) \in sensitive_headers) =>
                        /\ DictGet(stored, IncomingHeaderName(meta[i][1]), "")
                              = REDACTED
                        /\ \A j \in 1..Len(stored) : stored[j][2] # meta[i][2]

\* the META entries that carry an HTTP header
HttpKeys(meta) == {i \in 1..Len(meta) : StartsWith(meta[i][1], s_HTTP_)}

\* C20: request_headers of the dispatched event has exactly one entry for
\* each HTTP_ key of META, under the key's name without its leading HTTP_,
\* with hyphens for underscores, in lower case: no header is renamed,
\* dropped or merged with another.
C20_OneEntryPerIncomingHeader ==
    \A t \in Threads :
        Dispatched(t) =>
            LET meta == request[t][1].META
                stored == Event(t).request_headers.json
            IN  /\ Len(stored) = Cardinality(HttpKeys(meta))
                /\ \A i \in HttpKeys(meta) :
                       \E j \in 1..Len(stored) :
                           stored[j][1] = IncomingHeaderName(meta[i][1])
                /\ \A j \in 1..Len(stored) :
                       \E i \in HttpKeys(meta) :
                           stored[j][1] = IncomingHeaderName(meta[i][1])

\* -----------------------------------------------------------------------
\* SpecConc: two worker threads share the middleware instance, each serves
\* MaxRequests requests
\* -----------------------------------------------------------------------

ConcRequests ==
    {r \in Requests :
        /\ r.content_type = s_application_json
        /\ r.body = BodyOfLen(1)
        /\ ~r.body_unreadable
        /\ r.META = <<>>}

InitConc == InitWith({e_empty})

NextConc ==
    \E t \in Threads :
        \/ \E req \in ConcRequests : CallStart(t, req)
        \/ GetResponseReturns(t, OneResponse(200))
        \/ \E exc \in Exceptions : _on_exception(t, exc)
        \/ GetResponseConverted(t, OneResponse(500))
        \/ GetResponseRaises(t)
        \/ CaptureAndBuild(t)
        \/ \E out \in {"ok", "timeout"} : _send_to_otas(t, out)
        \/ Return(t)
        \/ \E exc \in Exceptions : OnExceptionAfterCall(t, exc)
        \/ ThreadReused(t)

SpecConc == InitConc /\ [][NextConc]_vars

\* C3: a request whose own handler did not raise is dispatched with an
\* empty error and with the body and size captured from its own response,
\* whatever another thread's request does in the meantime.
C3_NoCrossThreadError ==
    \A b \in Threads :
        (Dispatched(b) /\ downstream[b] = "returned") =>
            /\ Event(b).error = ""
            /\ Event(b).response_body = Decode(_truncate(response[b][1].content))
            /\ Event(b).response_size_bytes = Len(_truncate(response[b][1].content))

\* A's handler raised and A holds its error while B, whose handler did not
\* raise, has dispatched its event
C3_Witness ==
    \E a, b \in Threads :
        /\ a # b
        /\ downstream[a] = "raised"
        /\ pc[a] \in {"notified", "responded"}
        /\ local[ThreadLocal(a)] \in Exceptions
        /\ Dispatched(b)
        /\ downstream[b] = "returned"
        /\ Event(b).response_body # <<>>

\* -----------------------------------------------------------------------
\* SpecAuth: start-up through auth.authenticate(sdk_key), through
\* OtasClient(sdk_key).authenticate(), and through OtasMiddleware.__init__
\* -----------------------------------------------------------------------

EntryPoints == {"authenticate", "OtasClient", "OtasMiddleware"}

\* `not sdk_key`: None and "" are falsy
IsFalsyKey(key) == key = <<>> \/ key = <<"">>

ConfigurationError == [type |-> "OtasConfigurationError", detail |-> JNull]

\* replies of the authentication endpoint
FullProject ==
    JObj(<< <<"id", JStr("p1")>>, <<"name", JStr("shop")>>,
            <<"description", JStr("web shop")>> >>)

StatusOne(rest) == JObj(<< <<"status", JNum(1)>> >> \o rest)

ReplyBodies ==
    {NotJson, JArr, JNull, JStr("ok"),
     JObj(<<>>),
     JObj(<< <<"status", JNum(0)>> >>),
     JObj(<< <<"status", JNum(0)>>,
             <<"status_description", JStr("invalid key")>> >>),
     JObj(<< <<"status", JStr("1")>> >>),
     StatusOne(<<>>),
     StatusOne(<< <<"response", JNull>> >>),
     StatusOne(<< <<"response", JStr("ok")>> >>),
     StatusOne(<< <<"response", JObj(<<>>)>> >>),
     StatusOne(<< <<"response", JObj(<< <<"project", JNull>> >>)>> >>),
     StatusOne(<< <<"response", JObj(<< <<"project", JArr>> >>)>> >>),
     StatusOne(<< <<"response", JObj(<< <<"project", JObj(<<>>)>> >>)>> >>),
     StatusOne(<< <<"response",
                    JObj(<< <<"project", JObj(<< <<"id", JStr("p1")>> >>)>> >>)>> >>),
     StatusOne(<< <<"response", JObj(<< <<"project", FullProject>> >>)>> >>)}

Replies ==
    [transport : {"ConnectionError", "Timeout"}, status_code : {0},
     body : {NotJson}]
    \cup [transport : {"ok"}, status_code : {401, 500}, body : {NotJson}]
    \cup [transport : {"ok"}, status_code : {200}, body : ReplyBodies]

\* dict.get(key, default) on the Python value of a JSON object
JGet(obj, key, default) == DictGet(obj.f, key, default)

\* lines 27-40 of authenticate on the decoded reply: the exception raised,
\* or the dict returned; .get on anything but a dict is an AttributeError
AuthenticateResult(body, sdk_key) ==
    IF body.t = "invalid"
    THEN [type |-> "JSONDecodeError", detail |-> JNull, value |-> <<>>]
    ELSE IF body.t # "object"
    THEN [type |-> "AttributeError", detail |-> JNull, value |-> <<>>]
    ELSE IF ~(JGet(body, "status", JNull).t = "number"
              /\ JGet(body, "status", JNull).f = <<1>>)
    THEN [type |-> "OtasAuthenticationError",
          detail |-> JGet(body, "status_description", JStr("unknown error")),
          value |-> <<>>]
    ELSE IF JGet(body, "response", JObj(<<>>)).t # "object"
    THEN [type |-> "AttributeError", detail |-> JNull, value |-> <<>>]
    ELSE LET project_info ==
                 JGet(JGet(body, "response", JObj(<<>>)), "project", JObj(<<>>))
         IN  IF project_info.t # "object"
             THEN [type |-> "AttributeError", detail |-> JNull, value |-> <<>>]
             ELSE [type |-> "", detail |-> JNull,
                   value |-> <<[project_id |-> JGet(project_info, "id", JNull),
                                project_name |-> JGet(project_info, "name", JNull),
                                project_description |->
                                    JGet(project_info, "description", JNull),
                                sdk_key |-> sdk_key]>>]

InitAuth ==
    /\ entry \in EntryPoints
    /\ sdk_key_in \in {<<"">>, <<"otas_key">>}
                      \cup (IF entry = "OtasMiddleware" THEN {<<>>} ELSE {})
    /\ apc = "start"
    /\ auth_requests = <<>>
    /\ reply = <<>>
    /\ auth_error = NoError
    /\ client = <<>>
    /\ sensitive_headers = {}
    /\ local = [t \in Threads |-> "None"]
    /\ pc = [t \in Threads |-> "idle"]
    /\ request = [t \in Threads |-> <<>>]
    /\ request_data = [t \in Threads |-> <<>>]
    /\ response = [t \in Threads |-> <<>>]
    /\ payload = [t \in Threads |-> <<>>]
    /\ outbound = [t \in Threads |-> <<>>]
    /\ outcome = [t \in Threads |-> "none"]
    /\ returned = [t \in Threads |-> <<>>]
    /\ raised = [t \in Threads |-> ""]
    /\ downstream = [t \in Threads |-> "none"]
    /\ served = [t \in Threads |-> 0]

\* OtasMiddleware._initialize_client up to OtasClient(sdk_key)
_initialize_client ==
    /\ entry = "OtasMiddleware"
    /\ apc = "start"
    /\ IF IsFalsyKey(sdk_key_in)
       THEN /\ apc' = "raised"
            /\ auth_error' = ConfigurationError
            /\ UNCHANGED client
       ELSE /\ apc' = "constructed"
            /\ client' = <<[sdk_key |-> sdk_key_in[1], _credentials |-> <<>>]>>
            /\ UNCHANGED auth_error
    /\ UNCHANGED <<mwVars, entry, sdk_key_in, auth_requests, reply>>

\* OtasClient.__init__
OtasClient__init__ ==
    /\ entry = "OtasClient"
    /\ apc = "start"
    /\ IF IsFalsyKey(sdk_key_in)
       THEN /\ apc' = "raised"
            /\ auth_error' = ConfigurationError
            /\ UNCHANGED client
       ELSE /\ apc' = "constructed"
            /\ client' = <<[sdk_key |-> sdk_key_in[1], _credentials |-> <<>>]>>
            /\ UNCHANGED auth_error
    /\ UNCHANGED <<mwVars, entry, sdk_key_in, auth_requests, reply>>

\* the key authenticate is called with: its argument, or self.sdk_key when
\* OtasClient.authenticate calls it
KeyArgument == IF entry = "authenticate" THEN sdk_key_in[1] ELSE client[1].sdk_key

\* authenticate, lines 19-22: the POST to AUTHENTICATE_URL is sent
AuthenticateSend ==
    /\ \/ entry = "authenticate" /\ apc = "start"
       \/ apc = "constructed"
    /\ auth_requests' = Append(auth_requests, KeyArgument)
    /\ apc' = "awaiting"
    /\ UNCHANGED <<mwVars, client, entry, sdk_key_in, reply, auth_error>>

\* authenticate, lines 22-25: requests.post and raise_for_status
AuthenticateReply(r) ==
    /\ apc = "awaiting"
    /\ IF r.transport # "ok" \/ r.status_code >= 400
       THEN /\ apc' = "raised"
            /\ auth_error' = [type |-> "OtasAuthenticationError",
                              detail |-> JStr(r.transport)]
            /\ UNCHANGED reply
       ELSE /\ apc' = "replied"
            /\ reply' = <<r>>
            /\ UNCHANGED auth_error
    /\ UNCHANGED <<mwVars, client, entry, sdk_key_in, auth_requests>>

\* authenticate, lines 27-40; OtasClient.authenticate stores the result;
\* OtasMiddleware.__init__ goes on to load the sensitive headers
AuthenticateParse ==
    /\ apc = "replied"
    /\ LET res == AuthenticateResult(reply[1].body, KeyArgument)
       IN  IF res.type # ""
           THEN /\ apc' = "raised"
                /\ auth_error' = [type |-> res.type, detail |-> res.detail]
                /\ UNCHANGED <<client, sensitive_headers>>
           ELSE /\ apc' = "returned"
                /\ client' = IF entry = "authenticate"
                             THEN <<[sdk_key |-> KeyArgument,
                                     _credentials |-> res.value]>>
                             ELSE <<[client[1] EXCEPT !._credentials = res.value]>>
                /\ sensitive_headers' =
                       IF entry = "OtasMiddleware"
                       THEN _load_sensitive_headers(e_empty)
                       ELSE sensitive_headers
                /\ UNCHANGED auth_error
    /\ UNCHANGED <<local, pc, request, request_data, response, payload,
                   outbound, outcome, returned, raised, downstream, served,
                   entry, sdk_key_in, auth_requests, reply>>

NextAuth ==
    \/ _initialize_client
    \/ OtasClient__init__
    \/ AuthenticateSend
    \/ \E r \in Replies : AuthenticateReply(r)
    \/ AuthenticateParse

SpecAuth == InitAuth /\ [][NextAuth]_vars

\* C9: every failing outcome of authenticate is an OtasAuthenticationError,
\* a status other than 1 carries the server's status_description, and with
\* status 1 a missing project field is null, not an error.
C9_AuthFailuresAreAuthenticationErrors ==
    /\ (apc = "raised" /\ auth_requests # <<>>) =>
           auth_error.type = "OtasAuthenticationError"
    /\ (apc = "raised" /\ reply # <<>> /\ reply[1].body.t = "object"
          /\ "status_description" \in DictKeys(reply[1].body.f)) =>
           auth_error.detail = JGet(reply[1].body, "status_description", JNull)

\* C10: an empty key is a configuration error on every entry point, and no
\* authentication request is ever sent with an empty key.
C10_EmptyKeyIsConfigurationError ==
    /\ \A i \in 1..Len(auth_requests) : auth_requests[i] # ""
    /\ (IsFalsyKey(sdk_key_in) /\ apc # "start") =>
           auth_error.type = "OtasConfigurationError"

\* -----------------------------------------------------------------------
\* Further properties of the request lifecycle
\* -----------------------------------------------------------------------

\* C11 as stated: the return of the response does not wait for the dispatch
\* call; once the payload is built, __call__ can return before
\* _send_to_otas has completed.
C11_ReturnDoesNotWaitForDispatch ==
    \A t \in Threads : pc[t] = "built" => ENABLED Return(t)

\* C11 as the code has it: __call__ returns the response only after its one
\* dispatch call, made with a timeout of 2 seconds, has completed or failed.
C11_ReturnFollowsDispatch ==
    \A t \in Threads :
        returned[t] # <<>> =>
            /\ outcome[t] # "none"
            /\ Len(outbound[t]) = 1
            /\ outbound[t][1].timeout = 2

\* a response was returned after a dispatch that timed out
C11_Witness ==
    \E t \in Threads :
        /\ returned[t] # <<>>
        /\ outcome[t] = "timeout"
        /\ pc[t] = "done"

\* C12: for each request the phases come in a fixed order, whatever other
\* threads do: the request is captured before downstream handling starts,
\* downstream handling is over before the response is captured and the
\* payload built, and the payload is built before it is dispatched.
C12_PhasesInOrder ==
    \A t \in Threads :
        /\ pc[t] \in {"handling", "notified"} =>
              request_data[t] # <<>> /\ response[t] = <<>>
        /\ downstream[t] # "none" => request_data[t] # <<>>
        /\ response[t] # <<>> => downstream[t] \in {"returned", "raised"}
        /\ payload[t] # <<>> => response[t] # <<>>
        /\ outbound[t] # <<>> =>
              /\ payload[t] # <<>>
              /\ outbound[t][1] = OutboundPost(client[1], payload[t][1])

\* one thread has dispatched its event while another is still in
\* downstream handling
C12_Witness ==
    \E a, b \in Threads :
        /\ a # b
        /\ Dispatched(a)
        /\ pc[b] \in {"handling", "notified"}
        /\ request_data[b] # <<>>

\* the request_body a snapshot must hold when body capture is skipped for
\* the content types of skipped and for no other
ExpectedRequestBody(req, skipped) ==
    IF req.content_type \in skipped \/ req.body_unreadable
    THEN <<>>
    ELSE Decode(_truncate(req.body))

\* C13 as stated: body capture is skipped exactly for multipart/form-data
\* and application/octet-stream; every other request, one without a content
\* type included, has its truncated raw body captured when the read
\* succeeds; a failing read gives an empty body and raises nothing.
C13_BodySkippedForMultipartAndBinaryOnly ==
    \A t \in Threads :
        /\ request_data[t] # <<>> =>
              request_data[t][1].request_body =
                  ExpectedRequestBody(request[t][1],
                      {s_multipart_form_data, s_application_octet_stream})
        /\ (request[t] # <<>> /\ request[t][1].body_unreadable
              /\ ~request[t][1].post_unparseable) => raised[t] # "MultiPartParserError"

\* C13 as the code has it: a request that declares no content type is
\* skipped as well.
C13_BodySkippedAlsoWithoutContentType ==
    \A t \in Threads :
        /\ request_data[t] # <<>> =>
              request_data[t][1].request_body =
                  ExpectedRequestBody(request[t][1],
                      {<<>>, s_multipart_form_data, s_application_octet_stream})
        /\ (request[t] # <<>> /\ request[t][1].body_unreadable
              /\ ~request[t][1].post_unparseable) =>
              /\ request_data[t] # <<>>
              /\ pc[t] = "handling" => raised[t] = ""

\* a request without a content type and with a readable body was captured
\* with an empty request_body
C13_Witness ==
    \E t \in Threads :
        /\ request_data[t] # <<>>
        /\ request[t][1].content_type = <<>>
        /\ request[t][1].body # <<>>
        /\ ~request[t][1].body_unreadable
        /\ request_data[t][1].request_body = <<>>
        /\ request_data[t][1].request_size_bytes = 0

h_X_Http_Token == <<"X", "-", "H", "t", "t", "p", "-", "T", "o", "k", "e", "n">>
h_X_Trace == <<"X", "-", "T", "r", "a", "c", "e">>
h_Authorization == <<"A", "u", "t", "h", "o", "r", "i", "z", "a", "t", "i", "o", "n">>

\* response headers as response.items() yields them, names in their own case
ResponseHeaderEntries ==
    {<<s_Content_Type, "text/html">>,
     <<k_Set_Cookie, "sessionid=abc">>,
     <<h_X_Http_Token, "token-a">>,
     <<h_X_Trace, "trace-1">>,
     <<h_Authorization, "Bearer secret">>}

HeaderMaps ==
    {m \in UNION {[1..n -> ResponseHeaderEntries] : n \in 0..MaxHeaders} :
        \A i, j \in 1..Len(m) : i # j => m[i][1] # m[j][1]}

RedactResponses(status) ==
    [kind : {"HttpResponse"}, status_code : {status}, content : {BodyOfLen(1)},
     headers : HeaderMaps]

InitRedact == InitWith(SensitiveEnvs)

NextRedact ==
    \/ \E req \in HeaderRequests : CallStart("t1", req)
    \/ \E resp \in RedactResponses(200) : GetResponseReturns("t1", resp)
    \/ _on_exception("t1", "ValueError('boom')")
    \/ \E resp \in RedactResponses(500) : GetResponseConverted("t1", resp)
    \/ GetResponseRaises("t1")
    \/ CaptureAndBuild("t1")
    \/ _send_to_otas("t1", "ok")
    \/ Return("t1")

SpecRedact == InitRedact /\ [][NextRedact]_vars

\* out has the keys of H, in their order; the value of a key whose
\* lower-cased name is in S is the mask, every other value is that of H
RedactedAsClaimed(H, out, S) ==
    /\ Len(out) = Len(H)
    /\ \A i \in 1..Len(H) :
          /\ out[i][1] = H[i][1]
          /\ Lower(H[i][1]) \in S => out[i][2] = REDACTED
          /\ Lower(H[i][1]) \notin S => out[i][2] = H[i][2]

\* C15: _redact_headers returns a map with exactly the keys of its input,
\* "[REDACTED]" for exactly the keys whose lower-cased name is sensitive and
\* the input value for every other key; the input map is left as it was.
C15_RedactMasksExactlySensitiveKeys ==
    \A t \in Threads :
        Dispatched(t) =>
            /\ RedactedAsClaimed(response[t][1].headers,
                                 Event(t).response_headers.json,
                                 sensitive_headers)
            /\ RedactedAsClaimed(ExtractLoop(request[t][1].META, <<>>),
                                 Event(t).request_headers.json,
                                 sensitive_headers)
            /\ pc[t] = "done" => returned[t][1].headers = response[t][1].headers

\* an event whose response headers hold a masked header, sensitive through
\* its lower-cased name only, next to a header that kept its value
C15_Witness ==
    \E t \in Threads :
        /\ Dispatched(t)
        /\ LET H == response[t][1].headers
               out == Event(t).response_headers.json
           IN  \E i, j \in 1..Len(H) :
                   /\ H[i][1] \notin sensitive_headers
                   /\ Lower(H[i][1]) \in sensitive_headers
                   /\ out[i] = <<H[i][1], REDACTED>>
                   /\ Lower(H[j][1]) \notin sensitive_headers
                   /\ out[j] = H[j]

\* T is the first min(Len(B), MAX_BODY_SIZE) bytes of B
IsBoundedPrefix(T, B) ==
    /\ Len(T) = (IF Len(B) < MAX_BODY_SIZE THEN Len(B) ELSE MAX_BODY_SIZE)
    /\ \A i \in 1..Len(T) : T[i] = B[i]

\* C16: _truncate(B) is a prefix of B of length min(len(B), MAX_BODY_SIZE),
\* and no request or response body stored in an event is longer than
\* MAX_BODY_SIZE bytes.
C16_TruncateIsBoundedPrefix ==
    \A t \in Threads :
        /\ request[t] # <<>> =>
              IsBoundedPrefix(_truncate(request[t][1].body), request[t][1].body)
        /\ response[t] # <<>> =>
              IsBoundedPrefix(_truncate(response[t][1].content),
                              response[t][1].content)
        /\ Dispatched(t) =>
              /\ Len(Event(t).request_body) <= MAX_BODY_SIZE
              /\ Event(t).request_size_bytes <= MAX_BODY_SIZE
              /\ Len(Event(t).response_body) <= MAX_BODY_SIZE
              /\ Event(t).response_size_bytes <= MAX_BODY_SIZE

\* an event for a request and a response whose bodies were both longer than
\* the limit and were captured
C16_Witness ==
    \E t \in Threads :
        /\ Dispatched(t)
        /\ Len(RawRequestBody(request[t][1])) > MAX_BODY_SIZE
        /\ Event(t).request_size_bytes = MAX_BODY_SIZE
        /\ response[t][1].kind = "HttpResponse"
        /\ Len(response[t][1].content) > MAX_BODY_SIZE
        /\ Event(t).response_size_bytes = MAX_BODY_SIZE

\* C17: for a streaming response the captured response_body is the marker
\* "[STREAMING_RESPONSE]" and response_size_bytes is the marker's length,
\* whatever the stream holds; when an exception was captured the body is
\* empty and the size zero.
C17_StreamingBodyIsMarker ==
    \A t \in Threads :
        (Dispatched(t) /\ response[t][1].kind = "StreamingHttpResponse") =>
            IF downstream[t] = "raised"
            THEN /\ Event(t).response_body = <<>>
                 /\ Event(t).response_size_bytes = 0
            ELSE /\ Event(t).response_body = s_STREAMING_RESPONSE
                 /\ Event(t).response_size_bytes = Len(s_STREAMING_RESPONSE)

\* an event for a stream longer than the limit carries the marker
C17_Witness ==
    \E t \in Threads :
        /\ Dispatched(t)
        /\ response[t][1].kind = "StreamingHttpResponse"
        /\ Len(response[t][1].content) > MAX_BODY_SIZE
        /\ downstream[t] = "returned"
        /\ Event(t).response_body = s_STREAMING_RESPONSE


\* the value of the inbound X-OTAS-Agent-Session-Token header, "" when the
\* request has none
InboundToken(req) ==
    IF \E i \in 1..Len(req.META) :
           req.META[i][1] = s_HTTP_X_OTAS_AGENT_SESSION_TOKEN
    THEN LET i == CHOOSE j \in 1..Len(req.META) :
                      req.META[j][1] = s_HTTP_X_OTAS_AGENT_SESSION_TOKEN
         IN  req.META[i][2]
    ELSE ""

TokenHeaders(out) ==
    {i \in 1..Len(out.headers) : out.headers[i][1] = "X-OTAS-AGENT-SESSION-TOKEN"}

\* C18: the dispatch call carries the inbound token, unchanged, in the
\* X-OTAS-AGENT-SESSION-TOKEN header exactly when the token is not empty;
\* the JSON body has no agent_session_token field; a request without the
\* header is captured with the token "".
C18_TokenTravelsAsHeaderOnly ==
    \A t \in Threads :
        /\ (request[t] # <<>> /\ request_data[t] # <<>>) =>
              request_data[t][1].agent_session_token = InboundToken(request[t][1])
        /\ (request[t] # <<>> /\ ~request[t][1].post_unparseable) =>
              request_data[t] # <<>>
        /\ Dispatched(t) =>
              LET token == InboundToken(request[t][1])
                  out == outbound[t][Len(outbound[t])]
              IN  /\ (token # "") <=> (TokenHeaders(out) # {})
                  /\ \A i \in TokenHeaders(out) : out.headers[i][2] = token
                  /\ "agent_session_token" \notin DOMAIN out.json

\* an event sent with the inbound token in the header and not in the body
C18_Witness ==
    \E t \in Threads :
        /\ Dispatched(t)
        /\ InboundToken(request[t][1]) = "session-1"
        /\ \E i \in TokenHeaders(outbound[t][1]) :
               outbound[t][1].headers[i][2] = "session-1"
        /\ "agent_session_token" \notin DOMAIN outbound[t][1].json


\* C19: on reused worker threads, a dispatched event has a non-empty error
\* exactly when the request's own get_response raised: an exception left in
\* the thread's slot by an earlier request, or delivered after that request
\* read its slot, does not reach a later request's event.
C19_ErrorIsTheRequestsOwn ==
    \A t \in Threads :
        Dispatched(t) => (Event(t).error # "" <=> downstream[t] = "raised")

\* the second request of a reused thread was dispatched without an error,
\* and a notification delivered after its slot was read sits in the slot
C19_Witness ==
    \E t \in Threads :
        /\ served[t] > 0
        /\ Dispatched(t)
        /\ downstream[t] = "returned"
        /\ Event(t).error = ""
        /\ local[ThreadLocal(t)] \in Exceptions

====
